---- MODULE Spec2Model ----
(***************************************************************************)
(* Hot-reloading template store of docs.rs (src/web/page/templates.rs):    *)
(* TemplateData holds the Tera catalog in an ArcSwap; a background thread  *)
(* started by start_template_reloading rebuilds the catalog with           *)
(* load_templates for every message the debounced notify watcher puts on   *)
(* its channel and swaps it into the ArcSwap.                              *)
(***************************************************************************)
EXTENDS Integers, Sequences, FiniteSets, TLC

(***************************************************************************)
(* Bounds of the model                                                     *)
(***************************************************************************)
MaxWrites == 1          \* filesystem writes to template files
MaxRenderSteps == 2     \* template/function lookups one render performs

(***************************************************************************)
(* Program constants                                                       *)
(***************************************************************************)
DebounceWindow == 2     \* Duration::from_secs(2)

Files == {"base.html"}                 \* regular files under tera-templates
Renders == {"r1"}                      \* request handlers rendering pages

FunctionNames == {"global_alert", "docsrs_version", "rustc_resource_suffix"}
FilterNames == {"timeformat", "dbg", "dedent"}

GLOBAL_ALERT == "no alert"             \* crate::GLOBAL_ALERT
BUILD_VERSION == "0.6.0"               \* crate::BUILD_VERSION

\* What the query for the rustc_version row can find: no row at all, a JSON
\* number, and JSON strings.
RustcGood1 == "rustc 1.45.0-nightly (abc 2020-05-20)"
ConfigRows ==
    { [kind |-> "norow", val |-> ""],
      [kind |-> "number", val |-> "42"],
      [kind |-> "string", val |-> "garbage"],
      [kind |-> "string", val |-> RustcGood1] }

Err(msg) == [ok |-> FALSE, val |-> msg]
Ok(v) == [ok |-> TRUE, val |-> v]

VARIABLES
    mainPc,        \* the thread that calls TemplateData::new and start_template_reloading
    store,         \* TemplateData.templates: the Arc the ArcSwap points to (0: no TemplateData)
    heap,          \* the Tera behind every Arc created so far (Dropped once no Arc is left)
    disk,          \* the template files: version of the content and whether it compiles
    config,        \* the rustc_version row of the config table
    reloadPc,      \* position of the reload thread
    tera,          \* the Tera value load_templates is building in the reload thread
    chan,          \* the mpsc channel from the watcher to the reload thread
    pending,       \* debouncer: the buffered operation per path
    timer,         \* debouncer: time left before the buffered operation is emitted
    renderPc,      \* position of each render
    renderSnap,    \* the Arc a render obtained from the store
    renderFirst,   \* the catalog a render saw behind its Arc when it obtained it
    renderSeen,    \* the catalogs a render has used so far
    renderSteps,   \* lookups the render has made
    hist,          \* history of the run: the count of writes and what the properties read
    call           \* a call of one of the free functions: its arguments, locals and result

vars == << mainPc, store, heap, disk, config, reloadPc, tera, chan,
           pending, timer, renderPc, renderSnap, renderFirst, renderSeen,
           renderSteps, hist, call >>

(***************************************************************************)
(* Pure parts of load_templates                                            *)
(***************************************************************************)

\* Tera::default()
TeraDefault == [templates |-> << >>, functions |-> << >>, filters |-> {}]

\* what is left behind an Arc whose Tera has been freed
Dropped == [templates |-> << >>, functions |-> << >>, filters |-> {"<dropped>"}]

\* crate::utils::parse_rustc_version: "rustc V (HASH Y-M-D)" gives "YMD-V-HASH"
ParseRustcVersion(s) ==
    CASE s = RustcGood1 -> Ok("20200520-1.45.0-nightly-abc")
      [] OTHER -> Err("Failed to parse rustc version")

\* variant: a value that is not a string is used as it stands
load_rustc_resource_suffix_any_value(row, queryOk) ==
    IF ~queryOk THEN Err("query failed")
    ELSE IF row.kind = "norow" THEN Err("missing rustc version")
    ELSE IF row.kind = "string" THEN ParseRustcVersion(row.val)
    ELSE Ok(row.val)

\* load_rustc_resource_suffix(conn); queryOk is the outcome of conn.query
load_rustc_resource_suffix(row, queryOk) ==
    IF ~queryOk THEN Err("query failed")
    ELSE IF row.kind = "norow" THEN Err("missing rustc version")
    ELSE IF row.kind = "string" THEN ParseRustcVersion(row.val)
    ELSE Err("failed to parse the rustc version")

\* the Value::String(load_rustc_resource_suffix(conn).unwrap_or_else(..)) argument
ResourceSuffixValue(row, queryOk) ==
    LET r == load_rustc_resource_suffix(row, queryOk)
    IN IF r.ok THEN r.val ELSE "???"

\* find_templates_in_filesystem as load_templates uses it: every file or an error
find_templates_in_filesystem(scanOk) ==
    IF scanOk THEN Ok(Files) ELSE Err("failed to search tera-templates")

\* variant: a file that does not compile is left out and the others are kept
add_template_files_skipping(t, files, d) ==
    Ok([t EXCEPT !.templates = [f \in {g \in files : d[g].ok} |-> d[f].ver]])

\* tera.add_template_files(files): all files compile or the call fails
add_template_files(t, files, d) ==
    IF \E f \in files : ~d[f].ok
    THEN Err("failed while loading tera templates")
    ELSE Ok([t EXCEPT !.templates = [f \in files |-> d[f].ver]])

\* ReturnValue::add_function_to(tera, name, value)
add_function_to(t, name, value) ==
    [t EXCEPT !.functions =
        [n \in (DOMAIN t.functions) \cup {name} |->
            IF n = name THEN value ELSE t.functions[n]]]

\* tera.register_filter(name, f)
register_filter(t, name) == [t EXCEPT !.filters = @ \cup {name}]

\* the two constant functions registered before the resource suffix
RegisterConstants(t) ==
    add_function_to(add_function_to(t, "global_alert", GLOBAL_ALERT),
                    "docsrs_version", BUILD_VERSION)

RegisterSuffix(t, row, queryOk) ==
    add_function_to(t, "rustc_resource_suffix", ResourceSuffixValue(row, queryOk))

\* variant: the last filter is not registered
RegisterFiltersWithoutDedent(t) ==
    register_filter(register_filter(t, "timeformat"), "dbg")

RegisterFilters(t) ==
    register_filter(register_filter(register_filter(t, "timeformat"), "dbg"), "dedent")

\* load_templates(conn) run in one piece (TemplateData::new runs it before any
\* other thread exists)
load_templates(d, row, scanOk, queryOk) ==
    LET found == find_templates_in_filesystem(scanOk)
    IN IF ~found.ok THEN found
       ELSE LET compiled == add_template_files(TeraDefault, found.val, d)
            IN IF ~compiled.ok THEN compiled
               ELSE Ok(RegisterFilters(
                        RegisterSuffix(RegisterConstants(compiled.val), row, queryOk)))

(***************************************************************************)
(* Initial state: nothing is constructed yet; the template files and the   *)
(* config row are whatever the deployment holds.                           *)
(***************************************************************************)
NoRender == [r \in Renders |-> 0]

\* what the history records about the reload attempt in progress
NoAttempt == [storeAtStart |-> 0, catAtStart |-> TeraDefault, connOk |-> TRUE,
              scanOk |-> TRUE, compileOk |-> TRUE, arrived |-> FALSE]
NoQuery == [row |-> [kind |-> "norow", val |-> ""], ok |-> TRUE, made |-> FALSE]

\* no free function is being called on its own
NoCall == [fn |-> "none"]

SystemInit ==
    /\ mainPc = "new"
    /\ store = 0
    /\ heap = << >>
    /\ disk \in [Files -> [ver : {0}, ok : BOOLEAN]]
    /\ config \in ConfigRows
    /\ reloadPc = "nothread"
    /\ tera = TeraDefault
    /\ chan = << >>
    /\ pending = [f \in Files |-> "none"]
    /\ timer = [f \in Files |-> -1]
    /\ renderPc = [r \in Renders |-> "idle"]
    /\ renderSnap = NoRender
    /\ renderFirst = [r \in Renders |-> TeraDefault]
    /\ renderSeen = [r \in Renders |-> {}]
    /\ renderSteps = NoRender
    /\ hist = [writes |-> 0, nEvents |-> 0, sinceLast |-> 0, allClose |-> TRUE,
               allFar |-> TRUE, sent |-> 0, started |-> 0, finished |-> 0,
               failures |-> 0, swaps |-> 0, attempt |-> NoAttempt,
               lastQuery |-> NoQuery, swappedAfterFailure |-> FALSE,
               newFailure |-> "none",
               renderEpoch |-> NoRender,
               renderAfterSwap |-> [r \in Renders |-> FALSE]]

Init ==
    /\ SystemInit
    /\ call = NoCall

Running == mainPc \in {"created", "watching"}

(***************************************************************************)
(* The thread that constructs the store: TemplateData::new and             *)
(* start_template_reloading                                                *)
(***************************************************************************)
New ==
    /\ mainPc = "new"
    /\ \E scanOk \in BOOLEAN, queryOk \in BOOLEAN :
         LET r == load_templates(disk, config, scanOk, queryOk)
             cause == IF ~scanOk THEN "scan"
                      ELSE IF \E f \in Files : ~disk[f].ok THEN "compile"
                      ELSE "none"
         IN IF r.ok
            THEN /\ heap' = << r.val >>
                 /\ store' = 1
                 /\ mainPc' = "created"
                 /\ hist' = [hist EXCEPT !.newFailure = cause, !.lastQuery =
                                [row |-> config, ok |-> queryOk, made |-> TRUE]]
            ELSE /\ mainPc' = "failed"
                 /\ hist' = [hist EXCEPT !.newFailure = cause]
                 /\ UNCHANGED << heap, store >>
    /\ UNCHANGED << disk, config, reloadPc, tera, chan, pending, timer,
                    renderPc, renderSnap, renderFirst, renderSeen, renderSteps, call >>

\* watcher(tx, 2s).unwrap(); watcher.watch(..).unwrap(); thread::spawn(..)
StartTemplateReloading ==
    /\ mainPc = "created"
    /\ \E watcherOk \in BOOLEAN, watchOk \in BOOLEAN :
         IF watcherOk /\ watchOk
         THEN /\ mainPc' = "watching"
              /\ reloadPc' = "recv"
         ELSE /\ mainPc' = "panicked"
              /\ UNCHANGED reloadPc
    /\ hist' = [hist EXCEPT !.lastQuery = NoQuery]
    /\ UNCHANGED << store, heap, disk, config, tera, chan, pending, timer,
                    renderPc, renderSnap, renderFirst, renderSeen, renderSteps, call >>

(***************************************************************************)
(* The environment: template files are written, the config row is updated  *)
(***************************************************************************)
Min(a, b) == IF a < b THEN a ELSE b

Rebuilding == reloadPc \notin {"nothread", "recv"}

\* history: a message has arrived during the rebuild that is running
ArrivedDuring == Rebuilding \/ hist.attempt.arrived

\* the debounced watcher's handling of a write event for path f, as notify
\* documents DebouncedEvent: the first write of a quiet path is announced at
\* once (NoticeWrite), every write re-arms the path's timer, and Write is
\* emitted when the timer runs out
DebounceWrite(f) ==
    /\ chan' = IF pending[f] = "none"
               THEN Append(chan, [kind |-> "NoticeWrite", path |-> f])
               ELSE chan
    /\ pending' = [pending EXCEPT ![f] = "write"]
    /\ timer' = [timer EXCEPT ![f] = DebounceWindow]

FsWrite(f, ok) ==
    /\ mainPc \notin {"failed", "panicked"}
    /\ hist.writes < MaxWrites
    /\ disk' = [disk EXCEPT ![f] = [ver |-> @.ver + 1, ok |-> ok]]
    /\ IF mainPc = "watching"
       THEN /\ DebounceWrite(f)
            /\ hist' = [hist EXCEPT
                 !.writes = @ + 1,
                 !.nEvents = @ + 1,
                 !.sinceLast = 0,
                 !.allClose = @ /\ (hist.nEvents = 0 \/ hist.sinceLast < DebounceWindow),
                 !.allFar = @ /\ (hist.nEvents = 0 \/ hist.sinceLast > DebounceWindow),
                 !.sent = @ + (IF pending[f] = "none" THEN 1 ELSE 0),
                 !.attempt.arrived = IF pending[f] = "none" THEN ArrivedDuring ELSE @]
       ELSE /\ hist' = [hist EXCEPT !.writes = @ + 1]
            /\ UNCHANGED << chan, pending, timer >>
    /\ UNCHANGED << mainPc, store, heap, config, reloadPc, tera,
                    renderPc, renderSnap, renderFirst, renderSeen, renderSteps, call >>

\* one second passes; a timer that has run out fires before time moves on
Tick ==
    /\ mainPc = "watching"
    /\ \A f \in Files : timer[f] # 0
    /\ (\E f \in Files : timer[f] > 0) \/ hist.sinceLast <= DebounceWindow
    /\ timer' = [f \in Files |-> IF timer[f] > 0 THEN timer[f] - 1 ELSE timer[f]]
    /\ hist' = [hist EXCEPT !.sinceLast = Min(@ + 1, DebounceWindow + 1)]
    /\ UNCHANGED << mainPc, store, heap, disk, config, reloadPc, tera,
                    chan, pending, renderPc, renderSnap, renderFirst, renderSeen,
                    renderSteps, call >>

\* the path has been quiet for the whole window: the buffered event is emitted
TimerFire(f) ==
    /\ timer[f] = 0
    /\ chan' = Append(chan, [kind |-> "Write", path |-> f])
    /\ pending' = [pending EXCEPT ![f] = "none"]
    /\ timer' = [timer EXCEPT ![f] = -1]
    /\ hist' = [hist EXCEPT !.sent = @ + 1, !.attempt.arrived = ArrivedDuring]
    /\ UNCHANGED << mainPc, store, heap, disk, config, reloadPc, tera,
                    renderPc, renderSnap, renderFirst, renderSeen, renderSteps, call >>

ConfigChange(row) ==
    /\ Running
    /\ row # config
    /\ config' = row
    /\ UNCHANGED << mainPc, store, heap, disk, reloadPc, tera, chan, pending, timer,
                    renderPc, renderSnap, renderFirst, renderSeen, renderSteps, hist, call >>

(***************************************************************************)
(* The reload thread: while rx.recv().is_ok() { reload(..) }               *)
(***************************************************************************)
envVars == << mainPc, disk, config, pending, timer, call >>
renderVars == << renderPc, renderSnap, renderFirst, renderSeen, renderSteps >>

\* variant: the receive empties the channel
RecvDrains ==
    /\ reloadPc = "recv"
    /\ chan # << >>
    /\ chan' = << >>
    /\ reloadPc' = "poolget"
    /\ hist' = [hist EXCEPT !.started = @ + 1,
                            !.attempt = [NoAttempt EXCEPT !.storeAtStart = store,
                                                          !.catAtStart = heap[store]]]
    /\ UNCHANGED << store, heap, tera >>
    /\ UNCHANGED envVars
    /\ UNCHANGED renderVars

\* rx.recv() returns one message; whatever it says, a reload begins
Recv ==
    /\ reloadPc = "recv"
    /\ chan # << >>
    /\ chan' = Tail(chan)
    /\ reloadPc' = "poolget"
    /\ hist' = [hist EXCEPT !.started = @ + 1,
                            !.attempt = [NoAttempt EXCEPT !.storeAtStart = store,
                                                          !.catAtStart = heap[store]]]
    /\ UNCHANGED << store, heap, tera >>
    /\ UNCHANGED envVars
    /\ UNCHANGED renderVars

\* let conn = pool.get()?;
PoolGet ==
    /\ reloadPc = "poolget"
    /\ \E connOk \in BOOLEAN :
         /\ reloadPc' = IF connOk THEN "scan" ELSE "logerr"
         /\ hist' = [hist EXCEPT !.attempt.connOk = connOk]
    /\ tera' = TeraDefault
    /\ UNCHANGED << store, heap, chan >>
    /\ UNCHANGED envVars
    /\ UNCHANGED renderVars

\* load_templates: find_templates_in_filesystem(TEMPLATES_DIRECTORY)?
Scan ==
    /\ reloadPc = "scan"
    /\ \E scanOk \in BOOLEAN :
         /\ reloadPc' = IF find_templates_in_filesystem(scanOk).ok
                        THEN "compile" ELSE "logerr"
         /\ hist' = [hist EXCEPT !.attempt.scanOk = scanOk]
    /\ UNCHANGED << store, heap, chan, tera >>
    /\ UNCHANGED envVars
    /\ UNCHANGED renderVars

\* variant: the Tera is put into the store before the compile error is looked at
CompileFailedAfterSwap ==
    /\ reloadPc' = "logerr"
    /\ tera' = TeraDefault
    /\ store' = Len(heap) + 1
    /\ heap' = Append(heap, tera)

\* a reload that failed while compiling leaves the reload function
CompileFailed ==
    /\ reloadPc' = "logerr"
    /\ tera' = TeraDefault
    /\ UNCHANGED << store, heap >>

\* load_templates: tera.add_template_files(template_files)?
Compile ==
    /\ reloadPc = "compile"
    /\ LET r == add_template_files(tera, Files, disk)
       IN /\ IF r.ok
             THEN /\ reloadPc' = "functions"
                  /\ tera' = r.val
                  /\ UNCHANGED << store, heap >>
             ELSE CompileFailed
          /\ hist' = [hist EXCEPT !.attempt.compileOk = r.ok]
    /\ UNCHANGED chan
    /\ UNCHANGED envVars
    /\ UNCHANGED renderVars

\* load_templates: global_alert and docsrs_version
Functions ==
    /\ reloadPc = "functions"
    /\ tera' = RegisterConstants(tera)
    /\ reloadPc' = "suffix"
    /\ UNCHANGED << store, heap, chan, hist >>
    /\ UNCHANGED envVars
    /\ UNCHANGED renderVars

\* load_templates: rustc_resource_suffix, from the config table or "???"
Suffix ==
    /\ reloadPc = "suffix"
    /\ \E queryOk \in BOOLEAN :
         /\ tera' = RegisterSuffix(tera, config, queryOk)
         /\ hist' = [hist EXCEPT !.lastQuery =
                        [row |-> config, ok |-> queryOk, made |-> TRUE]]
    /\ reloadPc' = "filters"
    /\ UNCHANGED << store, heap, chan >>
    /\ UNCHANGED envVars
    /\ UNCHANGED renderVars

\* load_templates: the three filters, then Ok(tera)
Filters ==
    /\ reloadPc = "filters"
    /\ tera' = RegisterFilters(tera)
    /\ reloadPc' = "swap"
    /\ hist' = [hist EXCEPT !.lastQuery = NoQuery]
    /\ UNCHANGED << store, heap, chan >>
    /\ UNCHANGED envVars
    /\ UNCHANGED renderVars

\* Arc: the value is freed when the last Arc to it is dropped; snaps are the
\* Arcs renders hold, s the Arc the store holds
DropUnused(h, s, snaps) ==
    [i \in DOMAIN h |-> IF i = s \/ (\E r \in Renders : snaps[r] = i)
                        THEN h[i] ELSE Dropped]

\* variant: the Tera behind the store's Arc is overwritten where it is
ArcSwapSwapInPlace(t) ==
    /\ store' = store
    /\ heap' = [heap EXCEPT ![store] = t]

\* ArcSwap::swap(Arc::new(t)): a new Arc is allocated and the store's pointer
\* is replaced in one atomic step; the Tera behind older Arcs is untouched, and
\* the Arc swap returns is dropped at the end of the statement
ArcSwapSwap(t) ==
    /\ store' = Len(heap) + 1
    /\ heap' = DropUnused(Append(heap, t), Len(heap) + 1, renderSnap)

\* variant: the swap waits until no render holds a catalog (a write lock)
SwapWaitsForRenders ==
    /\ reloadPc = "swap"
    /\ \A r \in Renders : renderPc[r] = "idle"
    /\ store' = Len(heap) + 1
    /\ heap' = DropUnused(Append(heap, tera), Len(heap) + 1, renderSnap)
    /\ tera' = TeraDefault
    /\ reloadPc' = "loginfo"
    /\ hist' = [hist EXCEPT !.swaps = @ + 1,
                            !.swappedAfterFailure = (hist.failures > 0)]
    /\ UNCHANGED chan
    /\ UNCHANGED envVars
    /\ UNCHANGED renderVars

\* template_data.templates.swap(Arc::new(load_templates(&conn)?))
Swap ==
    /\ reloadPc = "swap"
    /\ ArcSwapSwap(tera)
    /\ tera' = TeraDefault
    /\ reloadPc' = "loginfo"
    /\ hist' = [hist EXCEPT !.swaps = @ + 1,
                            !.swappedAfterFailure = (hist.failures > 0)]
    /\ UNCHANGED chan
    /\ UNCHANGED envVars
    /\ UNCHANGED renderVars

\* log::info!("Reloaded templates"); Ok(()) and back to rx.recv()
LogInfo ==
    /\ reloadPc = "loginfo"
    /\ reloadPc' = "recv"
    /\ hist' = [hist EXCEPT !.finished = @ + 1, !.attempt = NoAttempt]
    /\ UNCHANGED << store, heap, chan, tera >>
    /\ UNCHANGED envVars
    /\ UNCHANGED renderVars

\* variant: the error leaves the loop (reload(..)? in the loop body)
AfterErrorExits == "exited"

\* where the loop goes after if let Err(err) = reload(..) { log::error!(..) }
AfterError == "recv"

LogErr ==
    /\ reloadPc = "logerr"
    /\ reloadPc' = AfterError
    /\ hist' = [hist EXCEPT !.finished = @ + 1, !.failures = Min(@ + 1, 1),
                            !.attempt = NoAttempt]
    /\ UNCHANGED << store, heap, chan, tera >>
    /\ UNCHANGED envVars
    /\ UNCHANGED renderVars

(***************************************************************************)
(* Renders: a request handler loads the store once and renders with the    *)
(* catalog it got                                                          *)
(***************************************************************************)
reloadVars == << reloadPc, tera, chan >>

\* templates.load(): the render obtains the Arc the store points to
Current(r) ==
    /\ Running
    /\ renderPc[r] = "idle"
    /\ renderPc' = [renderPc EXCEPT ![r] = "rendering"]
    /\ renderSnap' = [renderSnap EXCEPT ![r] = store]
    /\ renderFirst' = [renderFirst EXCEPT ![r] = heap[store]]
    /\ hist' = [hist EXCEPT !.renderEpoch[r] = hist.swaps]
    /\ UNCHANGED << renderSeen, renderSteps, store, heap >>
    /\ UNCHANGED envVars
    /\ UNCHANGED reloadVars

\* variant: rustc_resource_suffix reads the config row at every call
ReturnValueCallLive(t, name) ==
    IF name = "rustc_resource_suffix"
    THEN ResourceSuffixValue(config, TRUE)
    ELSE t.functions[name]

\* ReturnValue::call: Ok(self.value.clone()), the value given at registration
ReturnValueCall(t, name) == t.functions[name]

\* a catalog as a render sees it: its templates and filters, and what its
\* functions return when called
Rendered(t) ==
    [t EXCEPT !.functions = [n \in DOMAIN t.functions |-> ReturnValueCall(t, n)]]

\* the render looks a template, function or filter up in its catalog
RenderStep(r) ==
    /\ renderPc[r] = "rendering"
    /\ renderSteps[r] < MaxRenderSteps
    /\ renderSeen' = [renderSeen EXCEPT ![r] = @ \cup {Rendered(heap[renderSnap[r]])}]
    /\ renderSteps' = [renderSteps EXCEPT ![r] = @ + 1]
    /\ hist' = [hist EXCEPT !.renderAfterSwap[r] = @ \/ hist.renderEpoch[r] < hist.swaps]
    /\ UNCHANGED << renderPc, renderSnap, renderFirst, store, heap >>
    /\ UNCHANGED envVars
    /\ UNCHANGED reloadVars

\* the render is finished and drops its Arc
RenderDone(r) ==
    /\ renderPc[r] = "rendering"
    /\ renderSteps[r] = MaxRenderSteps
    /\ renderPc' = [renderPc EXCEPT ![r] = "idle"]
    /\ renderSnap' = [renderSnap EXCEPT ![r] = 0]
    /\ renderFirst' = [renderFirst EXCEPT ![r] = TeraDefault]
    /\ renderSeen' = [renderSeen EXCEPT ![r] = {}]
    /\ renderSteps' = [renderSteps EXCEPT ![r] = 0]
    /\ hist' = [hist EXCEPT !.renderEpoch[r] = 0, !.renderAfterSwap[r] = FALSE]
    /\ heap' = DropUnused(heap, store, renderSnap')
    /\ UNCHANGED store
    /\ UNCHANGED envVars
    /\ UNCHANGED reloadVars

Next ==
    \/ New
    \/ StartTemplateReloading
    \/ \E f \in Files, ok \in BOOLEAN : FsWrite(f, ok)
    \/ Tick
    \/ \E f \in Files : TimerFire(f)
    \/ \E row \in ConfigRows : ConfigChange(row)
    \/ Recv
    \/ PoolGet
    \/ Scan
    \/ Compile
    \/ Functions
    \/ Suffix
    \/ Filters
    \/ Swap
    \/ LogInfo
    \/ LogErr
    \/ \E r \in Renders : Current(r)
    \/ \E r \in Renders : RenderStep(r)
    \/ \E r \in Renders : RenderDone(r)

Spec == Init /\ [][Next]_vars

(***************************************************************************)
(* Properties                                                              *)
(***************************************************************************)
Complete(t) ==
    /\ DOMAIN t.templates = Files
    /\ DOMAIN t.functions = FunctionNames
    /\ t.filters = FilterNames

\* C1: swap atomicity. A render keeps, for all of its lookups, the catalog it
\* obtained from the store, unchanged, also after a swap; a render that read
\* the store after the latest swap holds the store's current catalog; no
\* render uses two different catalogs.
SwapAtomicity ==
    \A r \in Renders : renderPc[r] = "rendering" =>
        /\ renderSnap[r] \in DOMAIN heap
        /\ heap[renderSnap[r]] = renderFirst[r]
        /\ Complete(renderFirst[r])
        /\ renderSeen[r] \subseteq {renderFirst[r]}
        /\ hist.renderEpoch[r] = hist.swaps => renderSnap[r] = store
        /\ hist.renderEpoch[r] < hist.swaps => renderSnap[r] # store

\* a render that obtained its catalog before a swap has made a lookup after it
RenderSpansSwap ==
    \E r \in Renders : /\ renderPc[r] = "rendering"
                       /\ hist.renderAfterSwap[r]
                       /\ renderSeen[r] # {}
                       /\ renderSnap[r] # store

\* C2: a reload that failed (no connection, scan error, compile error) leaves
\* the store pointing to the very Arc, with the very catalog, it pointed to
\* when the reload began.
FailedRebuildKeepsStore ==
    reloadPc = "logerr" =>
        /\ store = hist.attempt.storeAtStart
        /\ heap[store] = hist.attempt.catAtStart
        /\ Len(heap) = hist.swaps + 1

\* a reload has failed on a template that does not compile
RebuildFailedOnCompile == reloadPc = "logerr" /\ ~hist.attempt.compileOk

\* C3: whenever the store exists it points to one complete catalog: all
\* scanned templates, the three constant functions and the three filters.
StoreHoldsCompleteCatalog ==
    store # 0 => /\ store \in DOMAIN heap
                 /\ Complete(heap[store])

\* a catalog is half built in the reload thread while the store serves one
\* that an earlier reload installed
PartialCatalogBeingBuilt ==
    /\ hist.swaps >= 1
    /\ reloadPc = "suffix"
    /\ ~Complete(tera)

\* no timer is armed, no message is queued and the reload thread is waiting
Quiescent ==
    /\ mainPc = "watching"
    /\ reloadPc = "recv"
    /\ chan = << >>
    /\ \A f \in Files : timer[f] = -1

\* C4: debounce coalescing. Once everything has settled, events that were each
\* less than the window after the previous one have caused exactly one
\* rebuild, and events each more than the window apart one rebuild each.
DebounceCoalescing ==
    (Quiescent /\ hist.nEvents >= 1) =>
        /\ hist.allClose => hist.started = 1
        /\ hist.allFar => hist.started = hist.nEvents

\* C5: rebuilds are serialized. Every message sent to the channel is either
\* still queued or has started a rebuild of its own, and at most one rebuild
\* is unfinished, the one the reload thread is in.
RebuildsSerialized ==
    /\ hist.sent = hist.started + Len(chan)
    /\ hist.started - hist.finished \in {0, 1}
    /\ (hist.started - hist.finished = 1) <=> Rebuilding
    /\ hist.attempt.arrived => (Rebuilding /\ chan # << >>)

\* a message has arrived during the rebuild that is running and is queued
\* behind it
EventQueuedDuringRebuild ==
    /\ hist.attempt.arrived
    /\ Rebuilding
    /\ Len(chan) = 1
    /\ hist.sent = hist.started + 1

\* C6: reads and rebuilds never wait for each other. A render that is about
\* to read the store can do so in every state, whatever the reload thread is
\* doing, and the reload thread's next step, the swap included, can be taken
\* whatever the renders are doing.
NobodyWaits ==
    /\ \A r \in Renders : (Running /\ renderPc[r] = "idle") => ENABLED Current(r)
    /\ reloadPc = "poolget" => ENABLED PoolGet
    /\ reloadPc = "scan" => ENABLED Scan
    /\ reloadPc = "compile" => ENABLED Compile
    /\ reloadPc = "functions" => ENABLED Functions
    /\ reloadPc = "suffix" => ENABLED Suffix
    /\ reloadPc = "filters" => ENABLED Filters
    /\ reloadPc = "swap" => ENABLED Swap
    /\ reloadPc = "loginfo" => ENABLED LogInfo
    /\ reloadPc = "logerr" => ENABLED LogErr

\* the swap is about to happen while a render is in the middle of its lookups
SwapDuringRender ==
    /\ reloadPc = "swap"
    /\ \E r \in Renders : /\ renderPc[r] = "rendering"
                           /\ renderSteps[r] >= 1
                           /\ renderSteps[r] < MaxRenderSteps

\* C7: a failure of the watcher never crashes the caller of
\* start_template_reloading.
WatcherFailureNeverCrashes == mainPc # "panicked"

\* C8: a rebuild that could not reach the config store still completes: a
\* reload that has failed without a connection has failed on the templates.
UnreachableConfigNeverFailsRebuild ==
    (reloadPc = "logerr" /\ ~hist.attempt.connOk) => \E f \in Files : ~disk[f].ok

\* what C9 says rustc_resource_suffix returns for a query outcome
ExpectedSuffix(q) ==
    IF q.ok /\ q.row.kind = "string" /\ q.row.val = RustcGood1
    THEN "20200520-1.45.0-nightly-abc"
    ELSE "???"

\* C9: resolver fallback. When the query fails, finds no row, a value that is
\* not a string or a string that does not parse, rustc_resource_suffix of the
\* catalog is "???" and the build goes on; otherwise it is the parsed suffix.
ResolverFallback ==
    /\ (reloadPc = "filters" /\ hist.lastQuery.made) =>
          tera.functions["rustc_resource_suffix"] = ExpectedSuffix(hist.lastQuery)
    /\ (mainPc = "created" /\ hist.lastQuery.made) =>
          heap[store].functions["rustc_resource_suffix"] = ExpectedSuffix(hist.lastQuery)
    /\ hist.lastQuery.made => (reloadPc = "filters" \/ mainPc = "created")

\* a reload found a number in the config row and went on with "???"
FallbackOnNonString ==
    /\ reloadPc = "filters"
    /\ hist.lastQuery.ok
    /\ hist.lastQuery.row.kind = "number"
    /\ tera.functions["rustc_resource_suffix"] = "???"

\* C10: a failed rebuild does not end the reload loop. After the error is
\* logged the thread waits for the next message with the store untouched, a
\* queued message then starts a rebuild, and a rebuild that gets to the swap
\* puts its catalog into the store.
ReloadLoopSurvivesFailure ==
    [][ /\ (reloadPc = "logerr" /\ reloadPc' # "logerr")
            => (reloadPc' = "recv" /\ store' = store)
        /\ (hist.failures > 0 /\ reloadPc = "swap" /\ reloadPc' # "swap")
            => (store' # store /\ heap'[store'] = tera /\ reloadPc' = "loginfo")
        /\ (hist.failures > 0 /\ reloadPc = "recv" /\ chan # << >>)
            => ENABLED Recv
      ]_vars

\* after a failed rebuild a later rebuild has put its catalog into the store
SwappedAfterFailure ==
    /\ hist.swappedAfterFailure
    /\ reloadPc = "loginfo"
    /\ hist.failures > 0

\* C11: a startup build failure is fatal. When the scan or the compilation
\* failed in TemplateData::new, new has returned the error, no store and no
\* Tera exist, no render can read a catalog and the reload loop cannot be
\* started.
StartupFailureIsFatal ==
    (mainPc # "new" /\ hist.newFailure # "none") =>
        /\ mainPc = "failed"
        /\ store = 0
        /\ heap = << >>
        /\ reloadPc = "nothread"
        /\ \A r \in Renders : renderPc[r] = "idle" /\ ~ENABLED Current(r)
        /\ ~ENABLED StartTemplateReloading

\* new has failed on a template that does not compile
StartupFailedOnCompile == mainPc = "failed" /\ hist.newFailure = "compile"

\* what the functions of the store's catalog return when called now
StoreValues == [n \in FunctionNames |-> ReturnValueCall(heap[store], n)]

\* C17: runtime values are frozen per catalog. What a function of a live
\* catalog returns never changes; a change of the rustc_version row changes
\* neither the store nor any catalog and starts no rebuild; what the store's
\* functions return changes only when a reload swaps its catalog in.
RuntimeValuesFrozen ==
    [][ /\ \A i \in DOMAIN heap :
              (Complete(heap[i]) /\ Complete(heap'[i])) =>
                  \A n \in FunctionNames :
                      ReturnValueCall(heap[i], n)' = ReturnValueCall(heap[i], n)
        /\ (config' # config) =>
              /\ store' = store /\ heap' = heap
              /\ chan' = chan /\ reloadPc' = reloadPc /\ tera' = tera
        /\ (store # 0 /\ StoreValues' # StoreValues) =>
              (reloadPc = "swap" /\ reloadPc' = "loginfo" /\ store' # store)
      ]_vars

\* the config row has been removed after the store's catalog was built with
\* the parsed suffix, and no rebuild is in sight
StaleSuffixServed ==
    /\ Quiescent
    /\ heap[store].functions["rustc_resource_suffix"] = "20200520-1.45.0-nightly-abc"
    /\ config.kind = "norow"
    /\ \E r \in Renders : renderPc[r] = "rendering" /\ renderSeen[r] # {}

\* C16: eventual freshness. Once the changes have stopped and everything has
\* settled (no timer armed, no message queued, no rebuild running), with no
\* rebuild having failed and templates that compile, the store's catalog holds
\* the content of every template as it is on disk: each change was followed
\* by a rebuild that read the disk after it.
EventualFreshness ==
    (Quiescent /\ hist.failures = 0 /\ \A f \in Files : disk[f].ok) =>
        \A f \in Files : heap[store].templates[f] = disk[f].ver

(***************************************************************************)
(* find_templates_in_filesystem, entry by entry. The walk is the sequence  *)
(* of entries WalkDir yields under the root, each one of:                   *)
(*   "file"      a regular file whose name is valid UTF-8                   *)
(*   "badname"   a regular file whose name to_slash cannot normalize       *)
(*   "dir"       a directory (the root itself is one)                      *)
(*   "symlink"   a symbolic link (links are not followed)                  *)
(*   "unreadable"  WalkDir yields Err for the entry                        *)
(*   "nometadata"  entry.metadata() fails                                  *)
(***************************************************************************)
MaxEntries == 3

EntryKinds == {"file", "badname", "dir", "symlink", "unreadable", "nometadata"}

BoundedSeq(S, n) == UNION {[1..k -> S] : k \in 0..n}

sysVars == << mainPc, store, heap, disk, config, reloadPc, tera, chan,
              pending, timer, renderPc, renderSnap, renderFirst, renderSeen,
              renderSteps, hist >>

\* the system before TemplateData::new, where a free function is called on
\* its own
SystemAtRest ==
    /\ SystemInit
    /\ disk = [f \in Files |-> [ver |-> 0, ok |-> TRUE]]
    /\ config = [kind |-> "norow", val |-> ""]

InitScan ==
    /\ SystemAtRest
    /\ call \in [fn : {"find_templates_in_filesystem"}, pc : {"canonicalize"},
                 rootOk : BOOLEAN, entries : BoundedSeq(EntryKinds, MaxEntries),
                 i : {1}, files : {<< >>}, ret : {Ok(<< >>)}]

Scanning == call.fn = "find_templates_in_filesystem"

\* let root = std::fs::canonicalize(base)?; let mut files = Vec::new();
Canonicalize ==
    /\ Scanning
    /\ call.pc = "canonicalize"
    /\ call' = IF call.rootOk
               THEN [call EXCEPT !.pc = "walk"]
               ELSE [call EXCEPT !.pc = "done", !.ret = Err("canonicalize")]
    /\ UNCHANGED sysVars

\* variant: entries WalkDir cannot read are left out of the walk
WalkEntrySkipsUnreadable ==
    /\ Scanning
    /\ call.pc = "walk"
    /\ call.i <= Len(call.entries)
    /\ LET kind == call.entries[call.i]
       IN call' = CASE kind = "nometadata" ->
                         [call EXCEPT !.pc = "done", !.ret = Err("metadata")]
                    [] kind \in {"dir", "symlink", "unreadable"} ->
                         [call EXCEPT !.i = @ + 1]
                    [] kind = "badname" ->
                         [call EXCEPT !.pc = "done", !.ret = Err("failed to normalize")]
                    [] kind = "file" ->
                         [call EXCEPT !.i = @ + 1, !.files = Append(@, call.i)]
    /\ UNCHANGED sysVars

\* one iteration of for entry in WalkDir::new(&root): entry?, metadata()?,
\* continue unless is_file(), strip_prefix, to_slash, files.push
WalkEntry ==
    /\ Scanning
    /\ call.pc = "walk"
    /\ call.i <= Len(call.entries)
    /\ LET kind == call.entries[call.i]
       IN call' = CASE kind = "unreadable" ->
                         [call EXCEPT !.pc = "done", !.ret = Err("entry")]
                    [] kind = "nometadata" ->
                         [call EXCEPT !.pc = "done", !.ret = Err("metadata")]
                    [] kind \in {"dir", "symlink"} ->
                         [call EXCEPT !.i = @ + 1]
                    [] kind = "badname" ->
                         [call EXCEPT !.pc = "done", !.ret = Err("failed to normalize")]
                    [] kind = "file" ->
                         [call EXCEPT !.i = @ + 1, !.files = Append(@, call.i)]
    /\ UNCHANGED sysVars

\* the iterator is exhausted: Ok(files)
WalkReturn ==
    /\ Scanning
    /\ call.pc = "walk"
    /\ call.i > Len(call.entries)
    /\ call' = [call EXCEPT !.pc = "done", !.ret = Ok(call.files)]
    /\ UNCHANGED sysVars

NextScan == Canonicalize \/ WalkEntry \/ WalkReturn

SpecScan == InitScan /\ [][NextScan]_vars

\* the entries under the root that are regular files, by position in the walk
RegularFiles ==
    {i \in 1..Len(call.entries) : call.entries[i] \in {"file", "badname"}}

\* something under the root makes the scan fail
ScanFailureCause ==
    \/ ~call.rootOk
    \/ \E i \in 1..Len(call.entries) :
           call.entries[i] \in {"unreadable", "nometadata", "badname"}

\* C13: the scan is all-or-nothing. When find_templates_in_filesystem has
\* returned, the result is either an error, and then the root or one of the
\* entries could not be read or named, or a list that holds every regular
\* file under the root, nothing but regular files, each exactly once (in the
\* order of the walk), and then nothing under the root was unreadable: no
\* list is ever returned from which an entry is missing.
ScanAllOrNothing ==
    (Scanning /\ call.pc = "done") =>
        IF call.ret.ok
        THEN /\ {call.ret.val[k] : k \in 1..Len(call.ret.val)} = RegularFiles
             /\ Len(call.ret.val) = Cardinality(RegularFiles)
             /\ \A k \in 1..(Len(call.ret.val) - 1) : call.ret.val[k] < call.ret.val[k + 1]
             /\ ~ScanFailureCause
        ELSE ScanFailureCause

\* a scan has returned a list of two files after it passed over an entry
\* that is not a regular file
ScanReturnedList ==
    /\ Scanning
    /\ call.pc = "done"
    /\ call.ret.ok
    /\ Len(call.ret.val) = 2
    /\ \E i \in 1..Len(call.entries) : call.entries[i] \in {"dir", "symlink"}

(***************************************************************************)
(* The filters timeformat and dedent, called on their own with every kind  *)
(* of tera Value. A Value is a record [kind, num, str]; a string is the    *)
(* sequence of its characters.                                             *)
(***************************************************************************)
MaxSeconds == 7200
MaxLen == 4

Chars == {"a", " ", "\n", "\r"}
Whitespace == {" ", "\r", "\n", "\t"}

Null == [kind |-> "null", num |-> 0, str |-> << >>]
Bool == [kind |-> "bool", num |-> 1, str |-> << >>]
Number(n) == [kind |-> "number", num |-> n, str |-> << >>]
String(s) == [kind |-> "string", num |-> 0, str |-> s]

\* a string DateTime::parse_from_rfc3339 accepts
SampleTimestamp ==
    << "2", "0", "2", "0", "-", "0", "5", "-", "2", "0", "T",
       "1", "2", ":", "0", "0", ":", "0", "0", "Z" >>

\* the input of the dedent example, "  line1\n    line2"
DedentExampleInput ==
    << " ", " ", "l", "i", "n", "e", "1", "\n",
       " ", " ", " ", " ", "l", "i", "n", "e", "2" >>

Strings == BoundedSeq(Chars, MaxLen) \cup {SampleTimestamp, DedentExampleInput}

Values == {Null, Bool} \cup {Number(n) : n \in 0..MaxSeconds}
              \cup {String(s) : s \in Strings}

\* args.get("relative"): not given, Bool(true), Bool(false)
RelativeArgs == {"absent", "true", "false"}

InitFilters ==
    /\ SystemAtRest
    /\ call \in [fn : {"timeformat"}, pc : {"start"}, value : Values,
                 relative : RelativeArgs, num : {0}, den : {1}, unit : {1},
                 time : {2}, ret : {Ok(Null)}]
            \cup [fn : {"dedent"}, pc : {"start"}, value : Values,
                  lines : {<< >>}, ret : {Ok(Null)}]

(***************************************************************************)
(* timeformat                                                              *)
(***************************************************************************)
TIMES == << << "s", "e", "c", "o", "n", "d", "s" >>,
            << "m", "i", "n", "u", "t", "e", "s" >>,
            << "h", "o", "u", "r", "s" >> >>

IsRfc3339(s) == s = SampleTimestamp

\* super::super::duration_to_str(value): a phrase relative to the current time
duration_to_str(s) == << "a", "g", "o" >>

\* if let Some(Value::Bool(true)) = args.get("relative"): value.as_str().unwrap(),
\* parse_from_rfc3339(..).unwrap(), duration_to_str
TimeformatRelative ==
    /\ call.fn = "timeformat"
    /\ call.pc = "start"
    /\ call.relative = "true"
    /\ call' = IF call.value.kind # "string" \/ ~IsRfc3339(call.value.str)
               THEN [call EXCEPT !.pc = "panicked"]
               ELSE [call EXCEPT !.pc = "done",
                                 !.ret = Ok(String(duration_to_str(call.value.str)))]
    /\ UNCHANGED sysVars

\* else: let mut value = value.as_f64().unwrap(); chosen_time = &TIMES[0]
TimeformatAsF64 ==
    /\ call.fn = "timeformat"
    /\ call.pc = "start"
    /\ call.relative # "true"
    /\ call' = IF call.value.kind # "number"
               THEN [call EXCEPT !.pc = "panicked"]
               ELSE [call EXCEPT !.pc = "scale", !.num = call.value.num,
                                 !.den = 1, !.unit = 1, !.time = 2]
    /\ UNCHANGED sysVars

\* variant: the next unit is chosen only when the scaled value exceeds 1
ScalesUpStrictly(num, den) == num > 60 * den

\* value / 60.0 >= 1.0, the value being num / den
ScalesUp(num, den) == num >= 60 * den

\* for time in &TIMES[1..]: one iteration, or the end of the loop
TimeformatScale ==
    /\ call.fn = "timeformat"
    /\ call.pc = "scale"
    /\ call' = IF call.time <= Len(TIMES) /\ ScalesUp(call.num, call.den)
               THEN [call EXCEPT !.unit = call.time, !.den = @ * 60,
                                 !.time = @ + 1]
               ELSE [call EXCEPT !.pc = "format"]
    /\ UNCHANGED sysVars

Digits == << "0", "1", "2", "3", "4", "5", "6", "7", "8", "9" >>

RECURSIVE Decimal(_)
Decimal(n) ==
    IF n < 10 THEN << Digits[n + 1] >>
    ELSE Append(Decimal(n \div 10), Digits[(n % 10) + 1])

\* the tenths format!("{:.1}", num / den) can print: the nearest multiple of
\* a tenth, and either neighbour when the value lies halfway between two
Tenths(num, den) ==
    LET q == (10 * num) \div den
        r == (10 * num) % den
    IN  IF 2 * r < den THEN {q}
        ELSE IF 2 * r > den THEN {q + 1}
        ELSE {q, q + 1}

\* format!("{:.1}", ..) for the value n / 10
FormatOneDecimal(n) == Decimal(n \div 10) \o << ".", Digits[(n % 10) + 1] >>

EndsWith(s, suffix) ==
    /\ Len(s) >= Len(suffix)
    /\ SubSeq(s, Len(s) - Len(suffix) + 1, Len(s)) = suffix

\* if value.ends_with(".0") { value.truncate(value.len() - 2) }
TruncateDotZero(s) ==
    IF EndsWith(s, << ".", "0" >>) THEN SubSeq(s, 1, Len(s) - 2) ELSE s

\* format!("{:.1}"), the truncation, format!("{} {}", value, chosen_time), Ok(..)
TimeformatFormat ==
    /\ call.fn = "timeformat"
    /\ call.pc = "format"
    /\ \E n \in Tenths(call.num, call.den) :
         call' = [call EXCEPT
                    !.pc = "done",
                    !.ret = Ok(String(TruncateDotZero(FormatOneDecimal(n))
                                        \o << " " >> \o TIMES[call.unit]))]
    /\ UNCHANGED sysVars

(***************************************************************************)
(* dedent                                                                  *)
(***************************************************************************)
\* str::split_terminator('\n'): the pieces between newlines, without an empty
\* piece after a final newline
RECURSIVE SplitTerminator(_)
SplitTerminator(s) ==
    IF s = << >> THEN << >>
    ELSE IF \E i \in 1..Len(s) : s[i] = "\n"
         THEN LET i == CHOOSE j \in 1..Len(s) :
                          s[j] = "\n" /\ \A k \in 1..(j - 1) : s[k] # "\n"
              IN  << SubSeq(s, 1, i - 1) >> \o SplitTerminator(SubSeq(s, i + 1, Len(s)))
         ELSE << s >>

StripCR(l) ==
    IF l # << >> /\ l[Len(l)] = "\r" THEN SubSeq(l, 1, Len(l) - 1) ELSE l

\* str::lines: split at "\n", a "\r" before the "\n" belonging to the line
\* ending. A "\r" that ends the last line without a "\n" after it is removed
\* by the standard library of the time and kept by later ones: both outcomes.
Lines(s) ==
    LET pieces == SplitTerminator(s)
        last == Len(pieces)
        all == [k \in 1..last |-> StripCR(pieces[k])]
    IN  IF s # << >> /\ s[Len(s)] = "\r"
        THEN {all, [all EXCEPT ![last] = pieces[last]]}
        ELSE {all}

\* str::trim_start
RECURSIVE trim_start(_)
trim_start(l) ==
    IF l # << >> /\ l[1] \in Whitespace THEN trim_start(SubSeq(l, 2, Len(l))) ELSE l

\* [&str]::join("\n")
RECURSIVE Join(_)
Join(ls) ==
    IF ls = << >> THEN << >>
    ELSE IF Len(ls) = 1 THEN ls[1]
    ELSE ls[1] \o << "\n" >> \o Join(SubSeq(ls, 2, Len(ls)))

\* let string = value.as_str().expect("dedent takes a string")
DedentAsStr ==
    /\ call.fn = "dedent"
    /\ call.pc = "start"
    /\ call' = IF call.value.kind # "string"
               THEN [call EXCEPT !.pc = "panicked"]
               ELSE [call EXCEPT !.pc = "lines"]
    /\ UNCHANGED sysVars

\* variant: only the first whitespace character of each line is removed
DedentCollectTrimsOne ==
    /\ call.fn = "dedent"
    /\ call.pc = "lines"
    /\ \E ls \in Lines(call.value.str) :
         call' = [call EXCEPT
                    !.pc = "join",
                    !.lines = [k \in 1..Len(ls) |->
                                 IF ls[k] # << >> /\ ls[k][1] \in Whitespace
                                 THEN SubSeq(ls[k], 2, Len(ls[k])) ELSE ls[k]]]
    /\ UNCHANGED sysVars

\* string.lines().map(|l| l.trim_start()).collect::<Vec<&str>>()
DedentCollect ==
    /\ call.fn = "dedent"
    /\ call.pc = "lines"
    /\ \E ls \in Lines(call.value.str) :
         call' = [call EXCEPT !.pc = "join",
                              !.lines = [k \in 1..Len(ls) |-> trim_start(ls[k])]]
    /\ UNCHANGED sysVars

\* Ok(Value::String(.. .join("\n")))
DedentJoin ==
    /\ call.fn = "dedent"
    /\ call.pc = "join"
    /\ call' = [call EXCEPT !.pc = "done", !.ret = Ok(String(Join(call.lines)))]
    /\ UNCHANGED sysVars

NextFilters ==
    \/ TimeformatRelative
    \/ TimeformatAsF64
    \/ TimeformatScale
    \/ TimeformatFormat
    \/ DedentAsStr
    \/ DedentCollect
    \/ DedentJoin

SpecFilters == InitFilters /\ [][NextFilters]_vars

(***************************************************************************)
(* Properties of the filters                                               *)
(***************************************************************************)
\* the input is of the wrong type for the filter and its options
WrongTypedInput ==
    \/ /\ call.fn = "timeformat"
       /\ call.relative # "true"
       /\ call.value.kind # "number"
    \/ /\ call.fn = "timeformat"
       /\ call.relative = "true"
       /\ call.value.kind # "string" \/ ~IsRfc3339(call.value.str)
    \/ /\ call.fn = "dedent"
       /\ call.value.kind # "string"

\* C12: a filter applied to an input of the wrong type returns an error value
\* to the render and never panics: once the filter has looked at such an
\* input, the call has ended with an error result.
WrongTypeReturnsError ==
    (WrongTypedInput /\ call.pc # "start") =>
        (call.pc = "done" /\ ~call.ret.ok)

\* the scaled magnitude s / d printed with one decimal, n being the number of
\* tenths, without a trailing ".0"
ShownNumber(n) ==
    IF n % 10 = 0 THEN Decimal(n \div 10)
    ELSE Decimal(n \div 10) \o << "." >> \o Decimal(n % 10)

\* C14: the duration filter without the relative option. For s whole seconds
\* the unit is seconds when s < 60, minutes when 60 <= s < 3600 and hours when
\* s >= 3600; the printed number is s scaled to that unit, rounded to one
\* decimal (to a nearest tenth), with a trailing ".0" removed, followed by a
\* space and the unit. 45 gives "45 seconds", 125 "2.1 minutes", 120
\* "2 minutes" and 7200 "2 hours".
DurationUnitsAndRounding ==
    (/\ call.fn = "timeformat"
     /\ call.relative # "true"
     /\ call.value.kind = "number"
     /\ call.pc = "done") =>
        LET s == call.value.num
            d == IF s < 60 THEN 1 ELSE IF s < 3600 THEN 60 ELSE 3600
            unit == IF s < 60 THEN << "s", "e", "c", "o", "n", "d", "s" >>
                    ELSE IF s < 3600 THEN << "m", "i", "n", "u", "t", "e", "s" >>
                    ELSE << "h", "o", "u", "r", "s" >>
            q == (10 * s) \div d
            out == call.ret.val.str
        IN  /\ call.ret.ok
            /\ call.ret.val.kind = "string"
            /\ \E n \in {q, q + 1} :
                 /\ 2 * (10 * s - n * d) <= d
                 /\ 2 * (n * d - 10 * s) <= d
                 /\ out = ShownNumber(n) \o << " " >> \o unit
            /\ s = 45 => out = << "4", "5", " ", "s", "e", "c", "o", "n", "d", "s" >>
            /\ s = 125 => out = << "2", ".", "1", " ", "m", "i", "n", "u", "t", "e", "s" >>
            /\ s = 120 => out = << "2", " ", "m", "i", "n", "u", "t", "e", "s" >>
            /\ s = 7200 => out = << "2", " ", "h", "o", "u", "r", "s" >>

\* 125 seconds have been formatted as "2.1 minutes"
FormattedMinutes ==
    /\ call.fn = "timeformat"
    /\ call.relative = "absent"
    /\ call.value = Number(125)
    /\ call.pc = "done"
    /\ call.ret = Ok(String(<< "2", ".", "1", " ", "m", "i", "n", "u", "t", "e", "s" >>))

\* the positions of the newlines of a string
Newlines(s) == {i \in 1..Len(s) : s[i] = "\n"}

\* the number of lines of a string: one per newline, and one more for what
\* follows the last newline if anything does
LineCount(s) ==
    Cardinality(Newlines(s))
        + (IF s # << >> /\ s[Len(s)] # "\n" THEN 1 ELSE 0)

\* the position of the k-th newline of a string, past its end if it has fewer
NewlineAt(s, k) ==
    IF k = 0 THEN 0
    ELSE IF k > Cardinality(Newlines(s)) THEN Len(s) + 1
    ELSE CHOOSE i \in Newlines(s) : Cardinality({j \in Newlines(s) : j <= i}) = k

\* what lies between the (k-1)-th and the k-th newline
Segment(s, k) == SubSeq(s, NewlineAt(s, k - 1) + 1, NewlineAt(s, k) - 1)

\* line is base without leading whitespace, all of it
Dedented(line, base) ==
    /\ line = << >> \/ line[1] \notin Whitespace
    /\ \E c \in 0..Len(base) :
         /\ \A j \in 1..c : base[j] \in Whitespace
         /\ line = SubSeq(base, c + 1, Len(base))

\* C15: the dedent filter. For every input string the output has as many
\* lines as the input, in the same order, joined by single newlines; each is
\* the input's line (a carriage return that ends the line counting as part of
\* the line ending) with all of its leading whitespace removed, so a blank
\* line stays as an empty line. "  line1\n    line2" gives "line1\nline2".
DedentLines ==
    (call.fn = "dedent" /\ call.value.kind = "string" /\ call.pc = "done") =>
        LET in == call.value.str
            out == call.ret.val.str
            n == LineCount(in)
        IN  /\ call.ret.ok
            /\ call.ret.val.kind = "string"
            /\ Cardinality(Newlines(out)) = (IF n = 0 THEN 0 ELSE n - 1)
            /\ n = 0 => out = << >>
            /\ \A k \in 1..n :
                 \/ Dedented(Segment(out, k), Segment(in, k))
                 \/ Dedented(Segment(out, k), StripCR(Segment(in, k)))
            /\ in = DedentExampleInput =>
                 out = << "l", "i", "n", "e", "1", "\n", "l", "i", "n", "e", "2" >>

\* a string with an indented line after a blank line has been dedented
DedentedBlankLine ==
    /\ call.fn = "dedent"
    /\ call.pc = "done"
    /\ call.value = String(<< "\n", " ", " ", "a" >>)
    /\ call.ret = Ok(String(<< "\n", "a" >>))

(***************************************************************************)
(* docbuilder/crates.rs: crates_from_file and crates_from_path. A line of  *)
(* an index file is a record [kind, name, yanked]:                         *)
(*   "unreadable"  reader.lines() yields Err (invalid UTF-8)               *)
(*   "notjson"     Value::from_str fails                                   *)
(*   "notobject"   JSON that is not an object                              *)
(*   "noname"      an object without a string "name"                       *)
(*   "novers"      an object with a name and without a string "vers"       *)
(*   "entry"       an object with string "name" and "vers"                 *)
(* The version of an entry is its place, << file, line number >>.          *)
(***************************************************************************)
MaxLines == 3
MaxPathLines == 2

CrateFiles == {"f1", "f2"}

BadLine(kind) == [kind |-> kind, name |-> "a", yanked |-> "absent"]

\* "yanked" is true, false, or not a boolean at all
Entries(names, yanked) == [kind : {"entry"}, name : names, yanked : yanked]

FileLines ==
    {BadLine(k) : k \in {"unreadable", "notjson", "notobject", "noname", "novers"}}
        \cup Entries({"", "a", "b"}, {"true", "false", "absent"})

PathLines ==
    {BadLine(k) : k \in {"notjson", "notobject", "novers"}}
        \cup Entries({"a"}, {"true", "false"})

\* the directory crates_from_path is called on
Tree == [root |-> << ".git", "config.json", "f1", "sub" >>, sub |-> << "f2" >>]

\* path.to_str().unwrap().contains(".git") || path.file_name().unwrap() == "config.json"
Skipped(entry) == entry \in {".git", "config.json"}

CratesCall(fn, pc, contents, cur) ==
    [fn |-> fn, pc |-> pc, contents |-> contents, stack |-> << >>, cur |-> cur,
     i |-> 1, name |-> "", versions |-> << >>, calls |-> << >>, ret |-> Ok("")]

InitCratesFile ==
    /\ SystemAtRest
    /\ \E ls \in BoundedSeq(FileLines, MaxLines) :
         call = CratesCall("crates_from_file", "open", [f1 |-> ls, f2 |-> << >>], "f1")

InitCratesPath ==
    /\ SystemAtRest
    /\ \E c \in [CrateFiles -> BoundedSeq(PathLines, MaxPathLines)] :
         call = CratesCall("crates_from_path", "isdir", c, "none")

InCrates == call.fn \in {"crates_from_file", "crates_from_path"}

\* crates_from_file returns r: to its caller, or into the ? of crates_from_path
Returned(c, r) ==
    IF c.fn = "crates_from_path" /\ r.ok
    THEN [c EXCEPT !.pc = "entry"]
    ELSE [c EXCEPT !.pc = "done", !.ret = r]

\* let reader = fs::File::open(path).map(BufReader::new)?; name, versions
OpenFile ==
    /\ InCrates
    /\ call.pc = "open"
    /\ \E ok \in BOOLEAN :
         call' = IF ok
                 THEN [call EXCEPT !.pc = "lines", !.i = 1, !.name = "",
                                   !.versions = << >>]
                 ELSE Returned(call, Err("open"))
    /\ UNCHANGED sysVars

\* variant: the callback is invoked as soon as a line has been accepted
ReadLineCallsAtOnce ==
    /\ InCrates
    /\ call.pc = "lines"
    /\ call.i <= Len(call.contents[call.cur])
    /\ LET line == call.contents[call.cur][call.i]
       IN call' =
            CASE line.kind \in {"unreadable", "notjson"} -> [call EXCEPT !.i = @ + 1]
              [] line.kind = "notobject" -> Returned(call, Err("Not a JSON object"))
              [] line.kind = "noname" ->
                   Returned(call, Err("name not found in JSON object"))
              [] line.kind = "novers" ->
                   Returned(call, Err("vers not found in JSON object"))
              [] line.kind = "entry" /\ line.yanked = "true" -> [call EXCEPT !.i = @ + 1]
              [] OTHER ->
                   [call EXCEPT !.i = @ + 1,
                                !.calls = Append(@, [name |-> line.name,
                                                     vers |-> << call.cur, call.i >>])]
    /\ UNCHANGED sysVars

\* one iteration of for line in reader.lines()
ReadLine ==
    /\ InCrates
    /\ call.pc = "lines"
    /\ call.i <= Len(call.contents[call.cur])
    /\ LET line == call.contents[call.cur][call.i]
       IN call' =
            CASE line.kind \in {"unreadable", "notjson"} -> [call EXCEPT !.i = @ + 1]
              [] line.kind = "notobject" -> Returned(call, Err("Not a JSON object"))
              [] line.kind = "noname" ->
                   Returned(call, Err("name not found in JSON object"))
              [] line.kind = "novers" ->
                   Returned(call, Err("vers not found in JSON object"))
              [] line.kind = "entry" /\ line.yanked = "true" -> [call EXCEPT !.i = @ + 1]
              [] OTHER ->
                   [call EXCEPT !.i = @ + 1, !.name = line.name,
                                !.versions = Append(@, << call.cur, call.i >>)]
    /\ UNCHANGED sysVars

Reverse(s) == [k \in 1..Len(s) |-> s[Len(s) + 1 - k]]

\* the lines are exhausted: if !name.is_empty() { versions.reverse(); .. }
EndOfLines ==
    /\ InCrates
    /\ call.pc = "lines"
    /\ call.i > Len(call.contents[call.cur])
    /\ call' = IF call.name # ""
               THEN [call EXCEPT !.pc = "callbacks", !.versions = Reverse(@)]
               ELSE Returned(call, Ok(""))
    /\ UNCHANGED sysVars

\* for version in versions { func(&name[..], &version[..]) }, then Ok(())
Callback ==
    /\ InCrates
    /\ call.pc = "callbacks"
    /\ call' = IF call.versions # << >>
               THEN [call EXCEPT !.calls = Append(@, [name |-> call.name,
                                                      vers |-> Head(call.versions)]),
                                 !.versions = Tail(@)]
               ELSE Returned(call, Ok(""))
    /\ UNCHANGED sysVars

\* if !path.is_dir() { return Err(..) }; path.read_dir()?
PathStart ==
    /\ call.fn = "crates_from_path"
    /\ call.pc = "isdir"
    /\ \E isDir \in BOOLEAN, readDirOk \in BOOLEAN :
         call' = IF ~isDir THEN [call EXCEPT !.pc = "done", !.ret = Err("Not a directory")]
                 ELSE IF ~readDirOk THEN [call EXCEPT !.pc = "done", !.ret = Err("read_dir")]
                 ELSE [call EXCEPT !.pc = "entry",
                                   !.stack = << [dir |-> "root", idx |-> 1] >>]
    /\ UNCHANGED sysVars

\* one iteration of for file in path.read_dir()?, in the innermost directory
PathEntry ==
    /\ call.fn = "crates_from_path"
    /\ call.pc = "entry"
    /\ LET depth == Len(call.stack)
           top == call.stack[depth]
           advanced == [call EXCEPT !.stack[depth].idx = @ + 1]
       IN /\ top.idx <= Len(Tree[top.dir])
          /\ \E fileOk \in BOOLEAN, readDirOk \in BOOLEAN :
               LET entry == Tree[top.dir][top.idx]
               IN call' =
                    IF ~fileOk THEN [call EXCEPT !.pc = "done", !.ret = Err("entry")]
                    ELSE IF Skipped(entry) THEN advanced
                    ELSE IF entry \in DOMAIN Tree
                    THEN IF readDirOk
                         THEN [advanced EXCEPT
                                 !.stack = Append(@, [dir |-> entry, idx |-> 1])]
                         ELSE [call EXCEPT !.pc = "done", !.ret = Err("read_dir")]
                    ELSE [advanced EXCEPT !.cur = entry, !.pc = "open"]
    /\ UNCHANGED sysVars

\* the directory is exhausted: Ok(()), to the caller or to the directory above
PathReturn ==
    /\ call.fn = "crates_from_path"
    /\ call.pc = "entry"
    /\ LET depth == Len(call.stack)
           top == call.stack[depth]
       IN /\ top.idx > Len(Tree[top.dir])
          /\ call' = IF depth = 1
                     THEN [call EXCEPT !.pc = "done", !.ret = Ok(""), !.stack = << >>]
                     ELSE [call EXCEPT !.stack = SubSeq(@, 1, depth - 1)]
    /\ UNCHANGED sysVars

NextCratesFile == OpenFile \/ ReadLine \/ EndOfLines \/ Callback

SpecCratesFile == InitCratesFile /\ [][NextCratesFile]_vars

NextCratesPath ==
    \/ PathStart
    \/ PathEntry
    \/ PathReturn
    \/ OpenFile
    \/ ReadLine
    \/ EndOfLines
    \/ Callback

SpecCratesPath == InitCratesPath /\ [][NextCratesPath]_vars

(***************************************************************************)
(* Properties of crates_from_file and crates_from_path                     *)
(***************************************************************************)
\* the lines of a file that parse as an entry and are not marked yanked
Kept(ls) == {i \in 1..Len(ls) : ls[i].kind = "entry" /\ ls[i].yanked # "true"}

Max(S) == CHOOSE x \in S : \A y \in S : y <= x

\* C18: when crates_from_file has returned Ok, the callback has been invoked
\* exactly once for every parseable line that is not marked yanked, never for
\* a yanked line, in the reverse of the order of the lines, every time with
\* the name of the last non-yanked line; with no such line there is no call.
CallbacksPerLine ==
    (call.fn = "crates_from_file" /\ call.pc = "done" /\ call.ret.ok) =>
        LET ls == call.contents[call.cur]
            n == Cardinality(Kept(ls))
        IN  /\ Len(call.calls) = n
            /\ \A k \in 1..n :
                 /\ call.calls[k].vers[2] \in Kept(ls)
                 /\ call.calls[k].name = ls[Max(Kept(ls))].name
            /\ \A k \in 1..(n - 1) : call.calls[k].vers[2] > call.calls[k + 1].vers[2]

\* a line of the file is valid JSON that is not an entry
HasInvalidLine(ls) ==
    \E i \in 1..Len(ls) : ls[i].kind \in {"notobject", "noname", "novers"}

\* crates_from_file has been called on the file and has returned
Processed(f) ==
    \/ f = "f1" /\ call.cur = "f2"
    \/ call.cur = f /\ call.pc \in {"entry", "done"}

IsPrefix(s, t) == Len(s) <= Len(t) /\ SubSeq(t, 1, Len(s)) = s

\* C19: errors are reported before any effect. A file with a line that is
\* valid JSON without being an object with string name and vers never gets a
\* callback for any of its lines, and once crates_from_file has gone through
\* it the traversal has ended with that error; unreadable lines and lines
\* that are not JSON cause no error. The callbacks made so far, those for
\* earlier files included, are never taken back: the list of calls only grows.
ErrorsBeforeEffects ==
    [][ /\ \A f \in CrateFiles :
             HasInvalidLine(call.contents[f]) =>
                 /\ \A k \in 1..Len(call'.calls) : call'.calls[k].vers[1] # f
                 /\ Processed(f)' => (call'.pc = "done" /\ ~call'.ret.ok)
        /\ (call'.pc = "done" /\ ~call'.ret.ok
               /\ call'.ret.val \notin {"Not a directory", "read_dir", "entry", "open"})
              => HasInvalidLine(call.contents[call'.cur])
        /\ IsPrefix(call.calls, call'.calls)
      ]_vars

\* the traversal has ended with the error of the second file, whose bad line
\* follows a valid one, and the callback made for the first file is there
ErrorAfterEarlierCallbacks ==
    /\ call.fn = "crates_from_path"
    /\ call.pc = "done"
    /\ ~call.ret.ok
    /\ call.cur = "f2"
    /\ call.contents["f2"] = << [kind |-> "entry", name |-> "a", yanked |-> "false"],
                               BadLine("novers") >>
    /\ call.calls = << [name |-> "a", vers |-> << "f1", 1 >>] >>

====
